---- MODULE Spec2Model ----
(***************************************************************************)
(* Model of flowmap/subgrid.py: the subgrid volume tables (build_tables),  *)
(* the level solver (subgrid_compute), the table store (create_export,     *)
(* export_tables, import_tables), the band compositor (compute_band) and   *)
(* the feature compositor (compute_features).                               *)
(*                                                                         *)
(* Numbers.  Elevations, bin edges, water levels and depths, and volumes   *)
(* are reals in the program.  The model stores every elevation and every   *)
(* volume as an integer count of 1/Scale units (Scale = 2 * NBins), which  *)
(* makes the 21 edges that numpy.histogram places between the minimum and  *)
(* the maximum of integer elevations exact integers.  Areas are in whole   *)
(* units.  A solved level is a quotient; it is kept as an exact fraction   *)
(* [num, den] of 1/Scale units.  den = 0 encodes the IEEE results of a     *)
(* division by zero (num > 0: +inf, num < 0: -inf, num = 0: nan).          *)
(* Floating-point rounding is not modelled.                                *)
(*                                                                         *)
(* Arrays are Python arrays: 0-based, and a negative index counts from the *)
(* end (At).  They are stored as TLA+ sequences.                           *)
(***************************************************************************)
EXTENDS Integers, Sequences, FiniteSets, TLC

VARIABLES
    dem,        \* the terrain provider: band, mask, dtype, pixel sizes, affine
    grid,       \* the mesh provider: face_coordinates
    pc,         \* position of the running function
    id_,        \* build_tables / export_tables: index of the next cell
    rows,       \* build_tables: the list of records built so far
    tables,     \* the DataFrame returned by build_tables, indexed by id
    ds,         \* the netCDF dataset written by create_export/export_tables
    imported,   \* the DataFrame returned by import_tables
    row,        \* the row handed to subgrid_compute (with its vol1)
    method,     \* the method of the last subgrid_compute call
    dem_i,      \* the terrain window the last subgrid_compute call read
    result,     \* what the last subgrid_compute call returned
    data,       \* the simulation output of the timestep: vol1 (s1, waterdepth) per cell
    faces,      \* compute_band / compute_features: list(tables.index)
    face_pos,   \* compute_band / compute_features: position of the loop in faces
    band,       \* compute_band: the masked raster being filled
    excluded,   \* compute_band: the cells skipped so far
    returned,   \* compute_band: the bands returned by the runs so far
    results,    \* compute_features: the solver results collected so far
    collection  \* compute_features: the features of the returned collection

vars == <<dem, grid, pc, id_, rows, tables, ds, imported, row, method, dem_i, result,
          data, faces, face_pos, band, excluded, returned, results, collection>>

\* the state of compute_band
bandVars == <<data, faces, face_pos, band, excluded, returned>>

\* the state of compute_features that compute_band does not have
featVars == <<results, collection>>

-----------------------------------------------------------------------------
(* Bounds of the model *)

Height == 2         \* raster rows
Width == 2          \* raster columns
MaxElev == 1        \* elevations are 0..MaxElev
PixelSize == 1      \* dxp = dyp = affine.a = -affine.e
NumCells == 2       \* mesh cells
MaxVol == 6         \* observed volumes are 0..MaxVol
MaxBins == 3        \* bins of a hand-made table (solver specification)
MaxBinWidth == 2    \* bin widths of a hand-made table are 1..MaxBinWidth
MaxBinVol == 3      \* per-bin volumes of a hand-made table are 1..MaxBinVol

(* Program constants *)

NBins == 20         \* np.histogram(dem_i, bins=20)

Scale == 2 * NBins  \* model units per unit of elevation or volume

-----------------------------------------------------------------------------
(* Python / numpy values *)

None == [kind |-> "None", data |-> <<>>, mask |-> <<>>]

\* a plain array: nothing masked
Arr(d) == [kind |-> "ndarray", data |-> d, mask |-> [i \in DOMAIN d |-> FALSE]]

\* a row of a netCDF variable read with auto-masking
MaskedArr(d, m) == [kind |-> "MaskedArray", data |-> d, mask |-> m]

IsNone(a) == a.kind = "None"

Len0(a) == Len(a.data)

\* a[i] with Python's indexing: 0-based, negative indices count from the end
At(a, i) == IF i < 0 THEN a.data[Len(a.data) + i + 1] ELSE a.data[i + 1]

\* whether a[i] is a masked element
MaskedAt(a, i) == IF i < 0 THEN a.mask[Len(a.mask) + i + 1] ELSE a.mask[i + 1]

RECURSIVE SumTo(_, _)
\* s[1] + ... + s[k]
SumTo(s, k) == IF k = 0 THEN 0 ELSE SumTo(s, k - 1) + s[k]

RECURSIVE cumsum_from(_, _, _)
\* the running sums of s[k..], after the sum acc of s[1..k-1]
cumsum_from(s, k, acc) ==
    IF k > Len(s) THEN <<>> ELSE <<acc + s[k]>> \o cumsum_from(s, k + 1, acc + s[k])

\* np.cumsum
cumsum(s) == cumsum_from(s, 1, 0)

\* np.diff
diff(s) == [k \in 1..(Len(s) - 1) |-> s[k + 1] - s[k]]

Abs(x) == IF x < 0 THEN -x ELSE x

Sign(x) == IF x > 0 THEN 1 ELSE IF x < 0 THEN -1 ELSE 0

Min(S) == CHOOSE x \in S : \A y \in S : x <= y

Max(S) == CHOOSE x \in S : \A y \in S : x >= y

-----------------------------------------------------------------------------
(* Exact fractions, for the float results of the solver *)

Frac(n, d) == [num |-> n, den |-> d]

\* x / y in float arithmetic; y = 0 gives inf or nan
Div(x, y) ==
    IF y = 0 THEN Frac(Sign(x), 0)
    ELSE IF y < 0 THEN Frac(-x, -y) ELSE Frac(x, y)

IsFinite(a) == a.den > 0

IsNaN(a) == a.den = 0 /\ a.num = 0

\* a + b for an integer a and a fraction b
AddInt(a, b) == IF b.den = 0 THEN b ELSE Frac(a * b.den + b.num, b.den)

\* a * b for a fraction a and an integer b (inf * 0 is nan)
MulInt(a, b) == IF a.den = 0 THEN Frac(a.num * Sign(b), 0) ELSE Frac(a.num * b, a.den)

\* a < b; every comparison with nan is false
Less(a, b) ==
    IF IsNaN(a) \/ IsNaN(b) THEN FALSE
    ELSE IF a.den = 0 /\ b.den = 0 THEN a.num < b.num
    ELSE IF a.den = 0 THEN a.num < 0
    ELSE IF b.den = 0 THEN b.num > 0
    ELSE a.num * b.den < b.num * a.den

\* a <= b
LessEq(a, b) ==
    IF IsNaN(a) \/ IsNaN(b) THEN FALSE
    ELSE IF a.den = 0 /\ b.den = 0 THEN a.num <= b.num
    ELSE IF a.den = 0 THEN a.num < 0
    ELSE IF b.den = 0 THEN b.num > 0
    ELSE a.num * b.den <= b.num * a.den

\* a = b as numbers
Same(a, b) == LessEq(a, b) /\ LessEq(b, a)

\* the integer e as a fraction
OfInt(e) == Frac(e, 1)

-----------------------------------------------------------------------------
(* The terrain raster *)

Pixels == (0..(Height - 1)) \X (0..(Width - 1))

\* band[r0:r1, c0:c1]: the pixels of a slice; numpy clips a slice to the array
SlicePixels(r0, r1, c0, c1) ==
    {p \in Pixels : r0 <= p[1] /\ p[1] < r1 /\ c0 <= p[2] /\ p[2] < c1}

\* a raster whose elevation depends on the column, with at most one masked
\* pixel, in the first row
MkDem(profile, maskAt, dtype) ==
    [band |-> [p \in Pixels |-> Scale * profile[p[2]]],
     mask |-> [p \in Pixels |-> p \in maskAt],
     dtype |-> dtype,
     dxp |-> PixelSize,
     dyp |-> PixelSize,
     affine |-> [a |-> PixelSize, e |-> -PixelSize, xoff |-> 0, yoff |-> 0]]

DemsOf(dtypes) ==
    {MkDem(profile, maskAt, dtype) :
        profile \in [0..(Width - 1) -> 0..MaxElev],
        maskAt \in {{}} \cup {{<<0, c>>} : c \in 0..(Width - 1)},
        dtype \in dtypes}

Dems == DemsOf({"int", "float"})

\* dem['world2px']: world coordinates (x, y) to pixel coordinates (column, row)
world2px(d, v) ==
    <<(v[1] - d.affine.xoff) \div d.affine.a,
      (d.affine.yoff - v[2]) \div (-d.affine.e)>>

-----------------------------------------------------------------------------
(* subgrid_compute *)

RECURSIVE bisect_loop(_, _, _, _)
\* bisect.bisect_right: while lo < hi: mid = (lo+hi)//2; if x < a[mid]: hi = mid
\* else: lo = mid+1.  A comparison with a masked element is not true.
bisect_loop(a, x, lo, hi) ==
    IF lo < hi
    THEN LET mid == (lo + hi) \div 2
         IN  IF ~MaskedAt(a, mid) /\ x < At(a, mid)
             THEN bisect_loop(a, x, lo, mid)
             ELSE bisect_loop(a, x, mid + 1, hi)
    ELSE lo

bisect(a, x) == bisect_loop(a, x, 0, Len0(a))

\* lines 41-48: the pixels of the terrain window subgrid_compute reads
window_of(r) ==
    IF "slice" \in DOMAIN r
    THEN SlicePixels(r.slice[1], r.slice[2], r.slice[3], r.slice[4])
    ELSE SlicePixels(r.slice_0, r.slice_2, r.slice_1, r.slice_3)

\* line 58: the test that selects the flat extrapolation
extrapolates(fill_idx, cum_volume_table) == fill_idx >= Len0(cum_volume_table) - 1

\* line 54: the volume left after the bins below fill_idx
remaining_volume(vol_i, cum_volume_table, fill_idx) ==
    vol_i - At(cum_volume_table, fill_idx - 1)

\* lines 53-63: the level for a row with a table; masked table entries give nan
target_level(r, d) ==
    LET bin_edges == r.bin_edges
        volume_table == r.volume_table
        cum_volume_table == r.cum_volume_table
        vol_i == r.vol1
        fill_idx == bisect(cum_volume_table, vol_i)
        pixel_area == d.dxp * d.dyp
        face_area == Cardinality(window_of(r)) * pixel_area
    IN  IF extrapolates(fill_idx, cum_volume_table)
        THEN IF MaskedAt(cum_volume_table, -1) \/ MaskedAt(bin_edges, -1)
             THEN Frac(0, 0)
             ELSE AddInt(At(bin_edges, -1),
                         Div(vol_i - At(cum_volume_table, -1), face_area))
        ELSE IF \/ MaskedAt(cum_volume_table, fill_idx - 1)
                \/ MaskedAt(volume_table, fill_idx)
                \/ MaskedAt(bin_edges, fill_idx)
                \/ MaskedAt(bin_edges, fill_idx + 1)
             THEN Frac(0, 0)
             ELSE AddInt(At(bin_edges, fill_idx),
                         MulInt(Div(remaining_volume(vol_i, cum_volume_table, fill_idx),
                                    At(volume_table, fill_idx)),
                                At(bin_edges, fill_idx + 1) - At(bin_edges, fill_idx)))

\* storing the float x in an array of the raster's dtype: an integer array
\* keeps the whole part (x >= 0 here)
cast(dtype, x) ==
    IF dtype = "int" /\ IsFinite(x)
    THEN Frac(Scale * (x.num \div (x.den * Scale)), 1)
    ELSE x

\* lines 68-71: zeros_like(dem_i), then level - elevation where elevation < level
waterdepth_of(level, d, window) ==
    [p \in window |->
        IF Less(OfInt(d.band[p]), level)
        THEN cast(d.dtype, AddInt(-d.band[p], level))
        ELSE OfInt(0)]

NoResult == [kind |-> "None", level |-> Frac(0, 1), data |-> <<>>]

subgrid_compute(r, d, m) ==
    IF IsNone(r.bin_edges)
    THEN NoResult
    ELSE LET level == target_level(r, d)
         IN  IF m = "waterlevel"
             THEN [kind |-> "float", level |-> level, data |-> <<>>]
             ELSE [kind |-> "ndarray", level |-> level,
                   data |-> waterdepth_of(level, d, window_of(r))]

Methods == {"waterlevel", "waterdepth"}

\* observed volumes
Volumes == {Scale * v : v \in 0..MaxVol}

\* the simulation outputs of a timestep: cell i holds the volume v0 + i
Timesteps == {[vol1 |-> [i \in 0..(NumCells - 1) |-> Scale * (v0 + i)]] : v0 \in {0, MaxVol}}

-----------------------------------------------------------------------------
(* The solver on hand-made tables: a row is fixed, and each timestep       *)
(* assigns it an observed volume and solves it.                            *)

\* bin edges 0 < w1 < w1+w2 < ..., strictly increasing
EdgesOf(widths) == [k \in 1..(Len(widths) + 1) |-> Scale * SumTo(widths, k - 1)]

\* the tables of n bins: bin widths 1..MaxBinWidth, per-bin volumes 1..MaxBinVol
TablesOf(n) ==
    {[bin_edges |-> Arr(EdgesOf(w)),
      volume_table |-> Arr([k \in 1..n |-> Scale * v[k]]),
      cum_volume_table |-> Arr(cumsum([k \in 1..n |-> Scale * v[k]]))] :
        w \in [1..n -> 1..MaxBinWidth], v \in [1..n -> 1..MaxBinVol]}

\* windows that hold at least one pixel, as (row-start, row-stop, col-start, col-stop)
FullWindows == {<<0, 1, 0, c1>> : c1 \in 1..Width}

NotRun == [kind |-> "NotRun", level |-> Frac(0, 1), data |-> <<>>]

idle == <<grid, id_, rows, tables, ds, imported>>

InitSolve ==
    /\ dem \in {d \in Dems : \A p \in Pixels : ~d.mask[p]}
    /\ \E n \in 1..MaxBins, s \in FullWindows : \E t \in TablesOf(n) :
          row = [bin_edges |-> t.bin_edges,
                 volume_table |-> t.volume_table,
                 cum_volume_table |-> t.cum_volume_table,
                 slice |-> s,
                 vol1 |-> 0]
    /\ pc = "solve"
    /\ method = "waterlevel"
    /\ dem_i = {}
    /\ result = NotRun
    /\ grid = <<>>
    /\ id_ = 0
    /\ rows = <<>>
    /\ tables = <<>>
    /\ ds = <<>>
    /\ imported = <<>>
    /\ data = <<>>
    /\ faces = <<>>
    /\ face_pos = 0
    /\ band = <<>>
    /\ excluded = <<>>
    /\ results = <<>>
    /\ collection = <<>>
    /\ returned = <<>>

\* one timestep: tables['vol1'] = data['vol1'], then subgrid_compute(row, dem, method)
Solve(v, m) ==
    /\ pc = "solve"
    /\ row' = [row EXCEPT !.vol1 = v]
    /\ method' = m
    /\ dem_i' = window_of(row')
    /\ result' = subgrid_compute(row', dem, m)
    /\ UNCHANGED <<dem, pc>>
    /\ UNCHANGED idle
    /\ UNCHANGED bandVars
    /\ UNCHANGED featVars

NextSolve == \E v \in Volumes, m \in Methods : Solve(v, m)

SpecSolve == InitSolve /\ [][NextSolve]_vars

-----------------------------------------------------------------------------
(* The mesh *)

\* world coordinates of the pixel corner (column c, row r)
corner(c, r) == <<c * PixelSize, -(r * PixelSize)>>

\* an axis-aligned face over pixel rows [r0, r1) and columns [c0, c1)
MkFace(r0, r1, c0, c1) == <<corner(c0, r0), corner(c1, r0), corner(c1, r1), corner(c0, r1)>>

\* cells of h rows by w columns, laid out along the columns with stride s, from row r0
MkGrid(r0, h, w, s) ==
    [face_coordinates |->
        [i \in 1..NumCells |-> MkFace(r0, r0 + h, (i - 1) * s, (i - 1) * s + w)]]

Strides == {0, 1}

Grids ==
    {MkGrid(q[1], q[2], q[3], q[4]) :
        q \in {q \in {0, 1} \X (0..Height) \X (0..Width) \X Strides : q[1] + q[2] <= Height}}

-----------------------------------------------------------------------------
(* build_tables *)

\* np.histogram(a, bins=NBins): first and last edge
outer_edges(values) ==
    IF values = {} THEN <<0, Scale>>
    ELSE IF Min(values) = Max(values)
         THEN <<Min(values) - Scale \div 2, Max(values) + Scale \div 2>>
         ELSE <<Min(values), Max(values)>>

\* np.histogram: the NBins + 1 equally spaced edges
histogram_edges(values) ==
    LET oe == outer_edges(values)
    IN  [k \in 1..(NBins + 1) |-> oe[1] + (k - 1) * ((oe[2] - oe[1]) \div NBins)]

\* np.histogram: the 0-based bin of value x; the last bin is closed on the right
bin_of(values, x) ==
    LET oe == outer_edges(values)
        f == ((x - oe[1]) * NBins) \div (oe[2] - oe[1])
    IN  IF f = NBins THEN NBins - 1 ELSE f

\* np.histogram: the number of pixels of the window in each bin
histogram_counts(d, window) ==
    LET values == {d.band[p] : p \in window}
    IN  [k \in 1..NBins |-> Cardinality({p \in window : bin_of(values, d.band[p]) = k - 1})]

\* a variant of line 111 that multiplies each bin's own count, not the cumulative count
volume_table_per_bin(affine, n_per_bin, bin_edges) ==
    LET widths == diff(bin_edges)
    IN  [k \in 1..Len(n_per_bin) |-> Abs(affine.a * affine.e) * n_per_bin[k] * widths[k]]

\* line 111: volume_table = |a * e| * n_cum * diff(bin_edges)
volume_table_of(affine, n_per_bin, bin_edges) ==
    LET n_cum == cumsum(n_per_bin)
        widths == diff(bin_edges)
    IN  [k \in 1..Len(n_per_bin) |-> Abs(affine.a * affine.e) * n_cum[k] * widths[k]]

\* lines 98-102: the pixel window of a face, (row-start, row-stop, col-start, col-stop)
face_px2slice(d, face) ==
    LET face_px == [v \in DOMAIN face |-> world2px(d, face[v])]
        px_rows == {face_px[v][2] : v \in DOMAIN face}
        px_cols == {face_px[v][1] : v \in DOMAIN face}
    IN  <<Min(px_rows), Max(px_rows), Min(px_cols), Max(px_cols)>>

\* a variant of line 104 that tests dem_i.mask.all()
mask_all(d, window) == \A p \in window : d.mask[p]

\* line 104: dem_i.mask.any()
mask_any(d, window) == \E p \in window : d.mask[p]

\* lines 97-128: the record of one cell
build_record(i, face, d) ==
    LET sl == face_px2slice(d, face)
        window == SlicePixels(sl[1], sl[2], sl[3], sl[4])
        n_per_bin == histogram_counts(d, window)
        bin_edges == histogram_edges({d.band[p] : p \in window})
        volume_table == volume_table_of(d.affine, n_per_bin, bin_edges)
        xs == {face[v][1] : v \in DOMAIN face}
        ys == {face[v][2] : v \in DOMAIN face}
        empty == mask_any(d, window)
    IN  [id |-> i,
         slice |-> sl,
         face |-> face,
         volume_table |-> IF empty THEN None ELSE Arr(volume_table),
         cum_volume_table |-> IF empty THEN None ELSE Arr(cumsum(volume_table)),
         n_per_bin |-> IF empty THEN None ELSE Arr(n_per_bin),
         extent |-> Arr(<<Min(xs), Max(xs), Min(ys), Max(ys)>>),
         bin_edges |-> IF empty THEN None ELSE Arr(bin_edges)]

\* line 133: pd.DataFrame.from_records(rows).set_index('id')
set_index(recs) ==
    [i \in {recs[k].id : k \in DOMAIN recs} |->
        LET r == recs[CHOOSE k \in DOMAIN recs : recs[k].id = i]
        IN  [f \in DOMAIN r \ {"id"} |-> r[f]]]

\* tables.loc[i] with the column vol1 set: the row handed to subgrid_compute
loc(t, i, v) ==
    [f \in DOMAIN t[i] \cup {"name", "vol1"} |->
        IF f = "name" THEN i ELSE IF f = "vol1" THEN v ELSE t[i][f]]

\* tables[c] = data[c] for the columns cols: the DataFrame with these columns set
with_columns(t, d, cols) ==
    [i \in DOMAIN t |->
        [f \in DOMAIN t[i] \cup cols |-> IF f \in cols THEN d[f][i] ELSE t[i][f]]]

\* build_tables(grid, dem): the loop of BuildRow, then BuildReturn
build_tables(g, d) ==
    set_index([k \in DOMAIN g.face_coordinates |->
                  build_record(k - 1, g.face_coordinates[k], d)])

-----------------------------------------------------------------------------
(* The table store *)

TableVars == {"bin_edges", "cum_volume_table", "volume_table", "extent", "n_per_bin"}

\* the length of a row of each variable (create_export's dimensions)
dimension(var, n_bins) ==
    IF var = "bin_edges" THEN n_bins + 1
    ELSE IF var \in {"extent", "slice"} THEN 4
    ELSE n_bins

\* a row nothing was written to: every element is the fill value, read as masked
unwritten(n) == MaskedArr([k \in 1..n |-> 0], [k \in 1..n |-> TRUE])

\* a row after ds.variables[var][i] = val
written(val) == MaskedArr(val, [k \in DOMAIN val |-> FALSE])

\* lines 202-259: a dataset with the six variables, nothing written
create_export(n_cells, n_bins) ==
    [var \in TableVars \cup {"slice"} |->
        [i \in 0..(n_cells - 1) |-> unwritten(dimension(var, n_bins))]]

\* lines 266-278: the dataset after writing row i of the tables
export_row(d, i, r) ==
    [var \in DOMAIN d |->
        IF var = "slice"
        THEN [d[var] EXCEPT ![i] = written(<<r.slice[1], r.slice[2], r.slice[3], r.slice[4]>>)]
        ELSE IF IsNone(r[var])
             THEN d[var]
             ELSE [d[var] EXCEPT ![i] = written(r[var].data)]]

\* lines 283-309: the DataFrame read back from the dataset
import_tables(d) ==
    [i \in DOMAIN d["bin_edges"] |->
        [f \in TableVars \cup {"slice_0", "slice_1", "slice_2", "slice_3"} |->
            IF f = "slice_0" THEN d["slice"][i].data[1]
            ELSE IF f = "slice_1" THEN d["slice"][i].data[2]
            ELSE IF f = "slice_2" THEN d["slice"][i].data[3]
            ELSE IF f = "slice_3" THEN d["slice"][i].data[4]
            ELSE d[f][i]]]

-----------------------------------------------------------------------------
(* build_tables.  It does not read the raster's dtype, which is "float"     *)
(* here.                                                                    *)

Init ==
    /\ dem \in DemsOf({"float"})
    /\ grid \in Grids
    /\ pc = "build_tables"
    /\ id_ = 0
    /\ rows = <<>>
    /\ tables = <<>>
    /\ ds = <<>>
    /\ imported = <<>>
    /\ row = <<>>
    /\ method = "waterlevel"
    /\ dem_i = {}
    /\ result = NotRun
    /\ data = <<>>
    /\ faces = <<>>
    /\ face_pos = 0
    /\ band = <<>>
    /\ excluded = <<>>
    /\ results = <<>>
    /\ collection = <<>>
    /\ returned = <<>>

\* one iteration of the loop of build_tables
BuildRow ==
    /\ pc = "build_tables"
    /\ id_ < Len(grid.face_coordinates)
    /\ rows' = Append(rows, build_record(id_, grid.face_coordinates[id_ + 1], dem))
    /\ id_' = id_ + 1
    /\ UNCHANGED <<dem, grid, pc, tables, ds, imported, row, method, dem_i, result>>
    /\ UNCHANGED bandVars
    /\ UNCHANGED featVars

\* the loop is over: build_tables returns the DataFrame
BuildReturn ==
    /\ pc = "build_tables"
    /\ id_ = Len(grid.face_coordinates)
    /\ tables' = set_index(rows)
    /\ rows' = <<>>
    /\ pc' = "built"
    /\ UNCHANGED <<dem, grid, id_, ds, imported, row, method, dem_i, result>>
    /\ UNCHANGED bandVars
    /\ UNCHANGED featVars

Next == BuildRow \/ BuildReturn

Spec == Init /\ [][Next]_vars

-----------------------------------------------------------------------------
(* create_export, export_tables and import_tables on the tables that        *)
(* build_tables returned, then one timestep on a row of the imported tables *)

InitStore ==
    /\ dem \in DemsOf({"float"})
    /\ grid \in Grids
    /\ tables = build_tables(grid, dem)
    /\ pc = "built"
    /\ id_ = 0
    /\ rows = <<>>
    /\ ds = <<>>
    /\ imported = <<>>
    /\ row = <<>>
    /\ method = "waterlevel"
    /\ dem_i = {}
    /\ result = NotRun
    /\ data = <<>>
    /\ faces = <<>>
    /\ face_pos = 0
    /\ band = <<>>
    /\ excluded = <<>>
    /\ results = <<>>
    /\ collection = <<>>
    /\ returned = <<>>

\* create_export(filename, len(tables), NBins)
CreateExport ==
    /\ pc = "built"
    /\ ds' = create_export(Cardinality(DOMAIN tables), NBins)
    /\ id_' = 0
    /\ pc' = "export_tables"
    /\ UNCHANGED <<dem, grid, rows, tables, imported, row, method, dem_i, result>>
    /\ UNCHANGED bandVars
    /\ UNCHANGED featVars

\* one iteration of the loop of export_tables
ExportRow ==
    /\ pc = "export_tables"
    /\ id_ \in DOMAIN tables
    /\ ds' = export_row(ds, id_, tables[id_])
    /\ id_' = id_ + 1
    /\ UNCHANGED <<dem, grid, pc, rows, tables, imported, row, method, dem_i, result>>
    /\ UNCHANGED bandVars
    /\ UNCHANGED featVars

\* the loop is over: the dataset is closed
ExportReturn ==
    /\ pc = "export_tables"
    /\ id_ \notin DOMAIN tables
    /\ pc' = "exported"
    /\ UNCHANGED <<dem, grid, id_, rows, tables, ds, imported, row, method, dem_i, result>>
    /\ UNCHANGED bandVars
    /\ UNCHANGED featVars

ImportTables ==
    /\ pc = "exported"
    /\ imported' = import_tables(ds)
    /\ pc' = "imported"
    /\ UNCHANGED <<dem, grid, id_, rows, tables, ds, row, method, dem_i, result>>
    /\ UNCHANGED bandVars
    /\ UNCHANGED featVars

\* a timestep on the imported tables: subgrid_compute(tables.loc[i], dem, m)
SolveImported(i, t, m) ==
    /\ pc = "imported"
    /\ row' = loc(imported, i, t.vol1[i])
    /\ method' = m
    /\ dem_i' = IF IsNone(row'.bin_edges) THEN {} ELSE window_of(row')
    /\ result' = subgrid_compute(row', dem, m)
    /\ pc' = "solved"
    /\ UNCHANGED <<dem, grid, id_, rows, tables, ds, imported>>
    /\ UNCHANGED bandVars
    /\ UNCHANGED featVars

NextStore ==
    \/ CreateExport
    \/ ExportRow
    \/ ExportReturn
    \/ ImportTables
    \/ \E i \in DOMAIN imported, t \in Timesteps, m \in Methods : SolveImported(i, t, m)

SpecStore == InitStore /\ [][NextStore]_vars

-----------------------------------------------------------------------------
(* compute_band on the tables build_tables returned, one timestep *)

\* a masked pixel of the band
masked == [mask |-> TRUE, value |-> Frac(0, 1)]

\* a variant of line 186 that starts from np.zeros(dem['band'].shape)
zeros_all == [p \in Pixels |-> [mask |-> FALSE, value |-> Frac(0, 1)]]

\* line 186: np.ma.masked_all(dem['band'].shape, dtype='float')
masked_all == [p \in Pixels |-> masked]

\* a variant of line 197 that writes only the pixels that are still masked
assign_if_masked(b, window, res) ==
    [p \in Pixels |->
        IF p \in window /\ b[p].mask
        THEN [mask |-> FALSE,
              value |-> IF res.kind = "float" THEN res.level ELSE res.data[p]]
        ELSE b[p]]

\* line 197: band[row['slice']] = result, for a scalar or a window-shaped array
assign(b, window, res) ==
    [p \in Pixels |->
        IF p \in window
        THEN [mask |-> FALSE,
              value |-> IF res.kind = "float" THEN res.level ELSE res.data[p]]
        ELSE b[p]]

InitBand ==
    /\ dem \in DemsOf({"float"})
    /\ grid \in Grids
    /\ tables = build_tables(grid, dem)
    /\ data \in Timesteps
    /\ method \in Methods
    /\ pc = "compute_band"
    /\ faces = <<>>
    /\ face_pos = 0
    /\ band = <<>>
    /\ excluded = <<>>
    /\ results = <<>>
    /\ collection = <<>>
    /\ returned = <<>>
    /\ id_ = 0
    /\ rows = <<>>
    /\ ds = <<>>
    /\ imported = <<>>
    /\ row = <<>>
    /\ dem_i = {}
    /\ result = NotRun

\* lines 182-188: excluded = [], faces = list(tables.index), the masked band,
\* and the column vol1 of the caller's tables
BandStart ==
    /\ pc = "compute_band"
    /\ excluded' = <<>>
    /\ faces' = [k \in 1..Cardinality(DOMAIN tables) |-> k - 1]
    /\ band' = masked_all
    /\ tables' = with_columns(tables, data, {"vol1"})
    /\ face_pos' = 0
    /\ pc' = "band_loop"
    /\ UNCHANGED <<dem, grid, id_, rows, ds, imported, row, method, dem_i, result, data,
                   returned>>
    /\ UNCHANGED featVars

\* lines 190-197: one iteration of the loop
BandCell ==
    /\ pc = "band_loop"
    /\ face_pos < Len(faces)
    /\ LET face_idx == faces[face_pos + 1]
           r == loc(tables, face_idx, tables[face_idx].vol1)
           res == subgrid_compute(r, dem, method)
       IN  /\ row' = r
           /\ result' = res
           /\ dem_i' = IF IsNone(r.bin_edges) THEN {} ELSE window_of(r)
           /\ IF res.kind = "None"
              THEN /\ excluded' = Append(excluded, face_idx)
                   /\ band' = band
              ELSE /\ excluded' = excluded
                   /\ band' = assign(band, window_of(r), res)
    /\ face_pos' = face_pos + 1
    /\ UNCHANGED <<dem, grid, pc, id_, rows, tables, ds, imported, method, data, faces,
                   returned>>
    /\ UNCHANGED featVars

\* lines 198-199: the loop is over, the band is returned
BandReturn ==
    /\ pc = "band_loop"
    /\ face_pos = Len(faces)
    /\ pc' = "band_returned"
    /\ returned' = Append(returned, band)
    /\ UNCHANGED <<dem, grid, id_, rows, tables, ds, imported, row, method, dem_i, result,
                   data, faces, face_pos, band, excluded>>
    /\ UNCHANGED featVars

\* the caller runs compute_band a second time, with the same arguments
BandAgain ==
    /\ pc = "band_returned"
    /\ Len(returned) < 2
    /\ pc' = "compute_band"
    /\ UNCHANGED <<dem, grid, id_, rows, tables, ds, imported, row, method, dem_i, result>>
    /\ UNCHANGED bandVars
    /\ UNCHANGED featVars

NextBand == BandStart \/ BandCell \/ BandReturn \/ BandAgain

SpecBand == InitBand /\ [][NextBand]_vars

-----------------------------------------------------------------------------
(* compute_features on the tables build_tables returned, one timestep *)

\* the simulation outputs compute_features reads: vol1, s1 and waterdepth per cell
FeatureTimesteps ==
    {[vol1 |-> t.vol1,
      s1 |-> [i \in DOMAIN t.vol1 |-> t.vol1[i] + Scale],
      waterdepth |-> [i \in DOMAIN t.vol1 |-> Scale * i]] : t \in Timesteps}

\* float nan
nan == [kind |-> "float", level |-> Frac(0, 0), data |-> <<>>]

\* line 155: tables['subgrid_' + method] = results.  pandas infers the dtype
\* of the column: floats and None make a float column in which None is nan;
\* a list that holds arrays, or only None, stays a column of objects
column(res) ==
    IF /\ \A k \in DOMAIN res : res[k].kind \in {"float", "None"}
       /\ \E k \in DOMAIN res : res[k].kind = "float"
    THEN [k \in DOMAIN res |-> IF res[k].kind = "None" THEN nan ELSE res[k]]
    ELSE res

\* lines 166-169: whether float(x) raises TypeError: it does for None and for
\* an array that does not hold exactly one element; numpy deprecates the
\* conversion of a one-element array of more than zero dimensions, and
\* size1_ok tells whether the installed numpy still converts it
float_raises(x, size1_ok) ==
    \/ x.kind = "None"
    \/ x.kind = "ndarray" /\ (Cardinality(DOMAIN x.data) # 1 \/ ~size1_ok)

\* float(x) where it does not raise
float(x) ==
    IF x.kind = "float" THEN x.level ELSE x.data[CHOOSE p \in DOMAIN x.data : TRUE]

\* line 159: row['face'].mean(axis=0)
mean(face) ==
    <<Div(SumTo([v \in DOMAIN face |-> face[v][1]], Len(face)), Len(face)),
      Div(SumTo([v \in DOMAIN face |-> face[v][2]], Len(face)), Len(face))>>

\* the name of the property that holds the solved value
subgrid_(m) == IF m = "waterlevel" THEN "subgrid_waterlevel" ELSE "subgrid_waterdepth"

\* lines 157-172: the feature of row i, whose solved value is x
row2feature(i, r, x, m) ==
    [id |-> i,
     coordinates |-> mean(r.face),
     properties |->
        [f \in {"s1", "vol1", "waterdepth", subgrid_(m)} |->
            IF f = "s1" THEN OfInt(r.s1)
            ELSE IF f = "vol1" THEN OfInt(r.vol1)
            ELSE IF f = "waterdepth" THEN OfInt(r.waterdepth)
            ELSE float(x)]]

InitFeat ==
    /\ dem \in DemsOf({"float"})
    /\ grid \in Grids
    /\ tables = build_tables(grid, dem)
    /\ data \in FeatureTimesteps
    /\ method \in Methods
    /\ pc = "compute_features"
    /\ faces = <<>>
    /\ face_pos = 0
    /\ band = <<>>
    /\ excluded = <<>>
    /\ results = <<>>
    /\ collection = <<>>
    /\ returned = <<>>
    /\ id_ = 0
    /\ rows = <<>>
    /\ ds = <<>>
    /\ imported = <<>>
    /\ row = <<>>
    /\ dem_i = {}
    /\ result = NotRun

\* lines 143-149: faces = list(tables.index), the data columns, results = []
FeatStart ==
    /\ pc = "compute_features"
    /\ faces' = [k \in 1..Cardinality(DOMAIN tables) |-> k - 1]
    /\ tables' = with_columns(tables, data, {"vol1", "s1", "waterdepth"})
    /\ results' = <<>>
    /\ face_pos' = 0
    /\ pc' = "features_loop"
    /\ UNCHANGED <<dem, grid, id_, rows, ds, imported, row, method, dem_i, result,
                   data, band, excluded, returned, collection>>

\* lines 151-154: one iteration of the loop
FeatCell ==
    /\ pc = "features_loop"
    /\ face_pos < Len(faces)
    /\ LET face_idx == faces[face_pos + 1]
           r == loc(tables, face_idx, tables[face_idx].vol1)
           res == subgrid_compute(r, dem, method)
       IN  /\ row' = r
           /\ result' = res
           /\ dem_i' = IF IsNone(r.bin_edges) THEN {} ELSE window_of(r)
           /\ results' = Append(results, res)
    /\ face_pos' = face_pos + 1
    /\ UNCHANGED <<dem, grid, pc, id_, rows, tables, ds, imported, method, data, faces,
                   band, excluded, returned, collection>>

\* lines 155-177: the results column, then row2feature on every row; the
\* first float() that raises ends compute_features with that TypeError
FeatReturn(size1_ok) ==
    /\ pc = "features_loop"
    /\ face_pos = Len(faces)
    /\ LET col == column(results)
       IN  IF \E k \in DOMAIN col : float_raises(col[k], size1_ok)
           THEN /\ pc' = "features_raised"
                /\ collection' = collection
           ELSE /\ pc' = "features_returned"
                /\ collection' = [k \in DOMAIN col |->
                                     row2feature(faces[k], tables[faces[k]], col[k],
                                                 method)]
    /\ UNCHANGED <<dem, grid, id_, rows, tables, ds, imported, row, method, dem_i, result,
                   data, faces, face_pos, band, excluded, returned, results>>

NextFeat == FeatStart \/ FeatCell \/ \E size1_ok \in BOOLEAN : FeatReturn(size1_ok)

SpecFeat == InitFeat /\ [][NextFeat]_vars

-----------------------------------------------------------------------------
(* Claims about the solver *)

\* the solver has run on the current row
Solved == pc = "solve" /\ result.kind \in {"float", "ndarray"}

\* n: the number of bins of the current row
nbins == Len0(row.cum_volume_table)

\* k: the right-biased insertion index of the observed volume
located == bisect(row.cum_volume_table, row.vol1)

\* the area of the current row's terrain window
window_area == Cardinality(window_of(row)) * dem.dxp * dem.dyp

\* bin_edges[-1] + (volume - cum_volume_table[-1]) / window_area
FlatExtrapolation ==
    AddInt(At(row.bin_edges, -1),
           Div(row.vol1 - At(row.cum_volume_table, -1), window_area))

\* bin_edges[k] + below / volume_table[k] * (bin_edges[k+1] - bin_edges[k]),
\* for below = volume - (cumulative volume under bin k)
Interpolation(k, below) ==
    AddInt(At(row.bin_edges, k),
           MulInt(Div(below, At(row.volume_table, k)),
                  At(row.bin_edges, k + 1) - At(row.bin_edges, k)))

\* C1: for a fixed table, the level returned by method 'waterlevel' does not
\* decrease when the observed volume does not decrease: two successive solves
\* of the same row with v1 <= v2 give level(v1) <= level(v2).
C1_Monotone ==
    [][(/\ result.kind = "float"
        /\ result'.kind = "float"
        /\ row.vol1 <= row'.vol1)
       => LessEq(result.level, result'.level)]_vars

\* C2: the flat extrapolation is used if and only if k = n; for every k <= n-1
\* (the last bin k = n-1 included) the level is the interpolation within bin k
\* of the volume left over by line 54; so a level above the last bin is never
\* below the highest bin edge.
C2_ExtrapolatesOnlyBeyondLastBin ==
    Solved =>
        /\ located = nbins => Same(result.level, FlatExtrapolation)
        /\ located <= nbins - 1 =>
              Same(result.level,
                   Interpolation(located,
                                 remaining_volume(row.vol1, row.cum_volume_table, located)))
        /\ Same(result.level, FlatExtrapolation) /\ ~(located <= nbins - 1) =>
              LessEq(OfInt(At(row.bin_edges, -1)), result.level)

\* C3: when the observed volume is below cum_volume_table[0] (k = 0), the
\* cumulative volume under the bin counts as 0: the level is
\* bin_edges[0] + volume / volume_table[0] * (bin_edges[1] - bin_edges[0]),
\* which lies in [bin_edges[0], bin_edges[1]).
C3_FirstBinStartsAtZero ==
    (Solved /\ row.vol1 < At(row.cum_volume_table, 0)) =>
        /\ Same(result.level, Interpolation(0, row.vol1))
        /\ LessEq(OfInt(At(row.bin_edges, 0)), result.level)
        /\ Less(result.level, OfInt(At(row.bin_edges, 1)))

\* C4: method 'waterdepth' returns an array over the pixels of the terrain
\* window in which every value is >= 0, is 0 exactly where the elevation is
\* >= the solved level, and is level - elevation at every other pixel.
C4_DepthIsLevelMinusElevation ==
    (Solved /\ result.kind = "ndarray") =>
        /\ DOMAIN result.data = window_of(row)
        /\ \A p \in window_of(row) :
              /\ LessEq(OfInt(0), result.data[p])
              /\ Same(result.data[p], OfInt(0)) <=> LessEq(result.level, OfInt(dem.band[p]))
              /\ Less(OfInt(dem.band[p]), result.level) =>
                    Same(result.data[p], AddInt(-dem.band[p], result.level))

-----------------------------------------------------------------------------
(* Claims about build_tables and the table store *)

\* build_tables has just returned
Built == pc = "built"

\* import_tables has returned
Imported == pc \in {"imported", "solved"}

\* the pixel rectangle build_tables stored in the 'slice' of row i
stored_window(i) ==
    {p \in Pixels : /\ tables[i].slice[1] <= p[1] /\ p[1] < tables[i].slice[2]
                    /\ tables[i].slice[3] <= p[2] /\ p[2] < tables[i].slice[4]}

\* row i has no table
EmptyTable(r) ==
    /\ r.bin_edges = None
    /\ r.n_per_bin = None
    /\ r.volume_table = None
    /\ r.cum_volume_table = None

RECURSIVE SumBelow(_, _)
\* a[0] + ... + a[k] of a Python array
SumBelow(a, k) == IF k < 0 THEN 0 ELSE SumBelow(a, k - 1) + At(a, k)

\* the cumulative volume under bin k (0 under bin 0)
Under(r, k) == IF k = 0 THEN 0 ELSE At(r.cum_volume_table, k - 1)

\* cum_volume_table is the prefix sums of volume_table
PrefixSums(r) ==
    /\ Len0(r.cum_volume_table) = Len0(r.volume_table)
    /\ \A k \in 0..(Len0(r.volume_table) - 1) :
          At(r.cum_volume_table, k) = SumBelow(r.volume_table, k)
    /\ At(r.cum_volume_table, -1) = SumBelow(r.volume_table, Len0(r.volume_table) - 1)

\* cum_volume_table is strictly increasing
StrictlyIncreasing(r) ==
    \A k \in 1..(Len0(r.cum_volume_table) - 1) :
        At(r.cum_volume_table, k - 1) < At(r.cum_volume_table, k)

\* the elevations of the window of row i
elevations(i) == {dem.band[p] : p \in stored_window(i)}

\* C5 as stated: every non-empty table of a window that holds pixels (equal
\* elevations included) has a strictly increasing cum_volume_table that is the
\* prefix sums of volume_table.
C5_StrictlyIncreasingPrefixSums ==
    Built =>
        \A i \in DOMAIN tables :
            (~IsNone(tables[i].bin_edges) /\ stored_window(i) # {}) =>
                StrictlyIncreasing(tables[i]) /\ PrefixSums(tables[i])

\* C5 amended: every non-empty table has a cum_volume_table that is the prefix
\* sums of volume_table and is non-decreasing; it is 0 under the first bin
\* that holds a pixel and strictly increasing from that bin on, hence strictly
\* increasing throughout when the window's elevations are not all equal.
C5_NonDecreasingPrefixSums ==
    Built =>
        \A i \in DOMAIN tables :
            ~IsNone(tables[i].bin_edges) =>
                /\ PrefixSums(tables[i])
                /\ Len0(tables[i].cum_volume_table) = NBins
                /\ \A k \in 0..(NBins - 1) :
                      IF \E j \in 0..k : At(tables[i].n_per_bin, j) > 0
                      THEN Under(tables[i], k) < At(tables[i].cum_volume_table, k)
                      ELSE At(tables[i].cum_volume_table, k) = 0
                /\ Cardinality(elevations(i)) >= 2 => StrictlyIncreasing(tables[i])

\* C5 witness: build_tables returned a table for a window of equal elevations
\* and a table for a window of different elevations
C5_Witness ==
    /\ Built
    /\ \E i \in DOMAIN tables :
          ~IsNone(tables[i].bin_edges) /\ Cardinality(elevations(i)) = 1
    /\ \E i \in DOMAIN tables :
          ~IsNone(tables[i].bin_edges) /\ Cardinality(elevations(i)) >= 2

\* C6: after create_export, export_tables and import_tables every non-empty
\* row is read back with equal bin_edges, cum_volume_table, volume_table,
\* n_per_bin, extent and window, and every empty row is read back as empty:
\* its bin_edges is None, and subgrid_compute returns None for it.
C6_RoundTrip ==
    Imported =>
        /\ DOMAIN imported = DOMAIN tables
        /\ \A i \in DOMAIN tables :
              IF IsNone(tables[i].bin_edges)
              THEN /\ IsNone(imported[i].bin_edges)
                   /\ (pc = "solved" /\ row.name = i) => result = NoResult
              ELSE /\ \A f \in TableVars :
                         /\ imported[i][f].data = tables[i][f].data
                         /\ \A k \in DOMAIN imported[i][f].mask : ~imported[i][f].mask[k]
                   /\ <<imported[i].slice_0, imported[i].slice_1,
                        imported[i].slice_2, imported[i].slice_3>> = tables[i].slice

\* C7: the terrain window subgrid_compute reads for an imported row is the
\* pixel rectangle rows [row-start, row-stop) x columns [col-start, col-stop)
\* that build_tables stored and export_tables wrote as four integers.
C7_ImportedWindow ==
    (pc = "solved" /\ result.kind # "None") =>
        /\ ds["slice"][row.name].data = tables[row.name].slice
        /\ dem_i = stored_window(row.name)

\* C9: build_tables returns one row per mesh cell in mesh index order, row i
\* describing cell i, and a cell whose window holds a masked pixel has
\* n_per_bin, bin_edges, volume_table and cum_volume_table all None; the loop
\* goes on after such a cell (every visited cell has its record).
C9_OneRowPerCell ==
    /\ \A k \in DOMAIN rows :
          /\ rows[k].id = k - 1
          /\ rows[k].face = grid.face_coordinates[k]
    /\ pc = "build_tables" => Len(rows) = id_ /\ id_ <= Len(grid.face_coordinates)
    /\ Built =>
          /\ DOMAIN tables = 0..(Len(grid.face_coordinates) - 1)
          /\ \A i \in DOMAIN tables :
                /\ tables[i].face = grid.face_coordinates[i + 1]
                /\ tables[i].slice = face_px2slice(dem, grid.face_coordinates[i + 1])
                /\ (\E p \in stored_window(i) : dem.mask[p]) => EmptyTable(tables[i])

\* C9 witness: build_tables returned, the first cell has no table because of a
\* masked pixel, and a later cell has one
C9_Witness ==
    /\ Built
    /\ \E p \in stored_window(0) : dem.mask[p]
    /\ EmptyTable(tables[0])
    /\ \E i \in DOMAIN tables : i > 0 /\ ~IsNone(tables[i].bin_edges)

\* C10: a cell whose window holds no pixel (row-start = row-stop or
\* col-start = col-stop) gets an empty table, as a cell with a masked pixel does.
C10_DegenerateWindowIsEmpty ==
    Built =>
        \A i \in DOMAIN tables :
            (\/ tables[i].slice[1] = tables[i].slice[2]
             \/ tables[i].slice[3] = tables[i].slice[4]) => EmptyTable(tables[i])

-----------------------------------------------------------------------------
(* Claims about compute_band *)

\* the cells that have a table
solvable == {i \in DOMAIN tables : ~IsNone(tables[i].bin_edges)}

\* compute_band did not solve the cell of the last iteration if it has no
\* table, and recorded it as excluded; at return every cell without a table
\* is in the excluded list
ExcludedRecorded ==
    /\ (pc = "band_loop" /\ face_pos > 0 /\ IsNone(row.bin_edges)) =>
          /\ result = NoResult
          /\ \E k \in DOMAIN excluded : excluded[k] = row.name
    /\ pc = "band_returned" =>
          \A i \in DOMAIN tables :
              (\E k \in DOMAIN excluded : excluded[k] = i) <=> i \notin solvable

\* C8 as stated: a cell with an empty table is never solved, is recorded as
\* excluded, and every pixel of its window is masked in the returned band,
\* whatever windows the other cells have.
C8_ExcludedWindowMasked ==
    /\ ExcludedRecorded
    /\ pc = "band_returned" =>
          \A i \in DOMAIN tables \ solvable :
              \A p \in stored_window(i) : band[p].mask

\* C8 amended: a cell with an empty table is never solved and is recorded as
\* excluded; in the returned band every pixel of its window that lies in the
\* window of no cell with a table is masked, and a pixel it shares with the
\* window of a cell with a table is not.
C8_ExcludedWindowMaskedUnlessShared ==
    /\ ExcludedRecorded
    /\ pc = "band_returned" =>
          \A i \in DOMAIN tables \ solvable :
              \A p \in stored_window(i) :
                  band[p].mask <=> ~(\E j \in solvable : p \in stored_window(j))

\* C8 witness: the band is returned, a cell was excluded, one pixel of its
\* window is masked and another is shared with a solved cell
C8_Witness ==
    /\ pc = "band_returned"
    /\ \E i \in DOMAIN tables \ solvable :
          /\ \E k \in DOMAIN excluded : excluded[k] = i
          /\ \E p \in stored_window(i) : band[p].mask
          /\ \E p \in stored_window(i) : \E j \in solvable : p \in stored_window(j)

\* the cells compute_band has processed in the current run
processed ==
    IF pc = "band_loop" THEN {faces[k] : k \in 1..face_pos}
    ELSE IF pc = "band_returned" THEN DOMAIN tables
    ELSE {}

\* the processed cells with a table whose window holds pixel p
writers(p) == {j \in solvable \cap processed : p \in stored_window(j)}

\* the solver output of cell j at pixel p, for the timestep and the method
output_at(j, p) ==
    LET res == subgrid_compute(loc(tables, j, data.vol1[j]), dem, method)
    IN  IF res.kind = "float" THEN res.level ELSE res.data[p]

\* C12: compute_band visits the cells in ascending index order from a fully
\* masked band; after each processed cell, and at return, a pixel is masked
\* if no processed cell with a table has it in its window, and otherwise
\* holds the solver output of the highest such cell; a second run on the same
\* inputs returns the same masked raster as the first.
C12_LastWriterWins ==
    /\ pc \in {"band_loop", "band_returned"} =>
          /\ faces = [k \in 1..Cardinality(DOMAIN tables) |-> k - 1]
          /\ \A p \in Pixels :
                IF writers(p) = {}
                THEN band[p].mask
                ELSE /\ ~band[p].mask
                     /\ band[p].value = output_at(Max(writers(p)), p)
    /\ pc = "band_returned" => returned[Len(returned)] = band
    /\ Len(returned) = 2 => returned[1] = returned[2]

\* C12 witness: the second run has returned; one pixel is in the windows of
\* two cells whose solver outputs differ there, and another pixel is masked
C12_Witness ==
    /\ pc = "band_returned"
    /\ Len(returned) = 2
    /\ \E p \in Pixels :
          \E i, j \in writers(p) : i < j /\ output_at(i, p) # output_at(j, p)
    /\ \E p \in Pixels : band[p].mask

-----------------------------------------------------------------------------
(* Claims about compute_features *)

\* the centre of an axis-aligned face
centre(face) ==
    LET xs == {face[v][1] : v \in DOMAIN face}
        ys == {face[v][2] : v \in DOMAIN face}
    IN  <<Div(Min(xs) + Max(xs), 2), Div(Min(ys) + Max(ys), 2)>>

\* C11: for every table set and timestep, cells with empty tables included,
\* compute_features completes (it never ends with an error) and returns one
\* point feature per cell in table index order, each with the cell's id, its
\* centre coordinate and the properties s1, vol1, waterdepth and the solved
\* value.
C11_OneFeaturePerCell ==
    /\ pc # "features_raised"
    /\ pc = "features_returned" =>
          /\ Len(collection) = Cardinality(DOMAIN tables)
          /\ \A k \in DOMAIN collection :
                LET f == collection[k]
                    i == k - 1
                IN  /\ f.id = i
                    /\ Same(f.coordinates[1], centre(tables[i].face)[1])
                    /\ Same(f.coordinates[2], centre(tables[i].face)[2])
                    /\ DOMAIN f.properties = {"s1", "vol1", "waterdepth", subgrid_(method)}
                    /\ f.properties["s1"] = OfInt(data.s1[i])
                    /\ f.properties["vol1"] = OfInt(data.vol1[i])
                    /\ f.properties["waterdepth"] = OfInt(data.waterdepth[i])
                    /\ results[k].kind = "float" =>
                          f.properties[subgrid_(method)] = results[k].level

====
